---- MODULE Spec2Model ----
(***************************************************************************)
(* A model of the POST /api/assist handler (src/src/app/api/assist/route.ts)*)
(* together with the flow it calls                                         *)
(* (src/src/ai/flows/answer-follow-up-question.ts) and the solution schema *)
(* that flow imports (src/unnamed/part_001).                               *)
(*                                                                         *)
(* The conversations table and the language model are the environment:    *)
(* the table is a sequence of rows in timestamp order, a query or an       *)
(* insert may fail, and the model may answer with any of RawOutputs.       *)
(* JSON values are records [t, s, a, o]: t is the JavaScript type, s the   *)
(* text of a string, a the elements of an array and o the members of an    *)
(* object (a sequence of [k, v] pairs, in insertion order).                *)
(***************************************************************************)
EXTENDS Integers, Sequences, FiniteSets, TLC

VARIABLES
  store,        \* the conversations table, oldest row first
  written,      \* history: the turns this run's requests inserted, in order
  answered,     \* history: the model output and the response of the last
                \* finished request whose model call answered
  env,          \* process.env: which of SUPABASE_URL, SUPABASE_KEY are set
  pc,           \* where each invocation of POST is
  body,         \* the request body, once request.json() has resolved
  req,          \* validationResult.data
  flowInput,    \* the argument of answerFollowUpQuestionFlow
  modelOutput,  \* what the language model answered
  aiResponse,   \* the flow's output
  historyError, \* the error of the history query
  aiError,      \* the error the flow rejected with
  insertError,  \* the error of the insert
  response,     \* the response returned
  calls,        \* collaborator calls the invocation made
  log,          \* console.error calls of the invocation
  started       \* requests received so far

vars == <<store, written, answered, env, pc, body, req, flowInput,
          modelOutput, aiResponse, historyError, aiError, insertError,
          response, calls, log, started>>

\* ------------------------------------------------------------- bounds
\* Concurrent invocations of the handler.
NumProcs == 2
\* Requests received in one run.
MaxRequests == 2
\* Rows the table may hold before the first request of a run.
MaxSeed == 8

Procs == 1..NumProcs

\* ------------------------------------------------------- JSON values
Undefined == [t |-> "undefined", s |-> "", a |-> <<>>, o |-> <<>>]
Str(x) == [t |-> "string", s |-> x, a |-> <<>>, o |-> <<>>]
Num(x) == [t |-> "number", s |-> x, a |-> <<>>, o |-> <<>>]
Arr(x) == [t |-> "array", s |-> "", a |-> x, o |-> <<>>]
Obj(x) == [t |-> "object", s |-> "", a |-> <<>>, o |-> x]
KV(key, val) == [k |-> key, v |-> val]

\* obj[key] of JavaScript: the member's value, undefined when there is none.
Get(obj, key) ==
  IF \E i \in 1..Len(obj.o) : obj.o[i].k = key
  THEN obj.o[CHOOSE i \in 1..Len(obj.o) : obj.o[i].k = key].v
  ELSE Undefined

RECURSIVE WithoutKey(_, _)
WithoutKey(members, key) ==
  IF members = <<>> THEN <<>>
  ELSE IF Head(members).k = key THEN WithoutKey(Tail(members), key)
  ELSE <<Head(members)>> \o WithoutKey(Tail(members), key)

\* JSON.stringify: strings quoted, arrays in brackets, objects in braces with
\* their members in insertion order.
RECURSIVE JSONstringify(_), StringifyElements(_), StringifyMembers(_)
JSONstringify(v) ==
  CASE v.t = "string" -> "\"" \o v.s \o "\""
    [] v.t = "number" -> v.s
    [] v.t = "array" -> "[" \o StringifyElements(v.a) \o "]"
    [] v.t = "object" -> "{" \o StringifyMembers(v.o) \o "}"
    [] OTHER -> "null"
StringifyElements(elems) ==
  IF elems = <<>> THEN ""
  ELSE JSONstringify(Head(elems))
       \o (IF Len(elems) > 1 THEN "," ELSE "")
       \o StringifyElements(Tail(elems))
StringifyMembers(members) ==
  IF members = <<>> THEN ""
  ELSE "\"" \o Head(members).k \o "\":" \o JSONstringify(Head(members).v)
       \o (IF Len(members) > 1 THEN "," ELSE "")
       \o StringifyMembers(Tail(members))

\* --------------------------------------------------- request validation
UuidLen == 36
HexDigits == {"0", "1", "2", "3", "4", "5", "6", "7", "8", "9",
              "a", "b", "c", "d", "e", "f", "A", "B", "C", "D", "E", "F"}
HyphenAt == {9, 14, 19, 24}

\* z.string().min(1) in place of z.string().uuid().
IsNonEmptyId(v) == v.t = "string" /\ Len(v.s) >= 1

\* z.string().uuid(): 8-4-4-4-12 hexadecimal digits.
IsUuid(v) ==
  /\ v.t = "string"
  /\ Len(v.s) = UuidLen
  /\ \A i \in 1..UuidLen :
       IF i \in HyphenAt THEN SubSeq(v.s, i, i) = "-"
       ELSE SubSeq(v.s, i, i) \in HexDigits

\* A string check that forgets min(1).
IsAnyString(v) == v.t = "string"

\* z.string().min(1)
IsNonEmptyString(v) == v.t = "string" /\ Len(v.s) >= 1

RequestFieldOrder == <<"user_id", "session_id", "input">>
RequestFields == {RequestFieldOrder[i] : i \in 1..Len(RequestFieldOrder)}

FieldValid(b, f) ==
  IF f = "input" THEN IsNonEmptyString(Get(b, f)) ELSE IsUuid(Get(b, f))

\* A parse that stops at the first field that fails.
ViolatedFieldsFirstOnly(b) ==
  LET failing == {i \in 1..Len(RequestFieldOrder) :
                    ~FieldValid(b, RequestFieldOrder[i])}
  IN IF failing = {} THEN {}
     ELSE {RequestFieldOrder[CHOOSE i \in failing : \A j \in failing : i <= j]}

\* AssistInputSchema.safeParse(b): every field is checked, and the error
\* carries each field that failed (error.flatten().fieldErrors).
ViolatedFields(b) == {f \in RequestFields : ~FieldValid(b, f)}

SafeParse(b) ==
  [success |-> ViolatedFields(b) = {},
   fieldErrors |-> ViolatedFields(b),
   data |-> [user_id |-> Get(b, "user_id").s,
             session_id |-> Get(b, "session_id").s,
             input |-> Get(b, "input").s]]

\* ------------------------------------------------- the output schemas
SolutionStringFields ==
  <<"problemStatement", "approach", "codeSnippet", "timeComplexity",
    "spaceComplexity", "dryRun">>

IsString(v) == v.t = "string"

\* One element of testCases: z.object({input: z.string(), output: z.string()}).
IsTestCase(v) ==
  v.t = "object" /\ IsString(Get(v, "input")) /\ IsString(Get(v, "output"))

\* testCases: z.array(...) with no minimum length.
IsTestCaseArray(v) ==
  v.t = "array" /\ \A i \in 1..Len(v.a) : IsTestCase(v.a[i])

\* GenerateCodeSolutionOutputSchema: six strings and the test-case array.
MatchesGenerateCodeSolutionOutputSchema(v) ==
  /\ v.t = "object"
  /\ \A i \in 1..Len(SolutionStringFields) :
       IsString(Get(v, SolutionStringFields[i]))
  /\ IsTestCaseArray(Get(v, "testCases"))

\* StructuredSolutionSchema: the solution schema extended by the literal tag.
MatchesStructuredSolutionSchema(v) ==
  /\ MatchesGenerateCodeSolutionOutputSchema(v)
  /\ Get(v, "type") = Str("solution")

\* PlainTextResponseSchema
MatchesPlainTextResponseSchema(v) ==
  /\ v.t = "object"
  /\ Get(v, "type") = Str("response")
  /\ IsString(Get(v, "answer"))

\* A flow without an output schema: any JSON object passes.
MatchesAnyObject(v) == v.t = "object"

\* AnswerFollowUpQuestionOutputSchema: the union of the two.
MatchesAnswerFollowUpQuestionOutputSchema(v) ==
  MatchesStructuredSolutionSchema(v) \/ MatchesPlainTextResponseSchema(v)

\* ------------------------------------------- what the model may answer
TestCase(i, out) == Obj(<<KV("input", Str(i)), KV("output", Str(out))>>)
TwoTestCases == <<TestCase("[2,7],9", "[0,1]"), TestCase("[3,3],6", "[0,1]")>>

SolutionMembers(cases) ==
  <<KV("problemStatement", Str("two sum")),
    KV("approach", Str("hash map")),
    KV("codeSnippet", Str("def f(): pass")),
    KV("timeComplexity", Str("O(n)")),
    KV("spaceComplexity", Str("O(n)")),
    KV("dryRun", Str("i=0")),
    KV("testCases", Arr(cases))>>

Tagged(tag, members) == Obj(<<KV("type", Str(tag))>> \o members)

\* A raw model output: its text, and the value the text parses to as JSON
\* (parsed is FALSE for prose).
Parsed(v) == [parsed |-> TRUE, text |-> JSONstringify(v), value |-> v]
Prose(x) == [parsed |-> FALSE, text |-> x, value |-> Undefined]

RawSolution == Parsed(Tagged("solution", SolutionMembers(TwoTestCases)))
RawSolutionNoCases == Parsed(Tagged("solution", SolutionMembers(<<>>)))
RawResponse == Parsed(Tagged("response", <<KV("answer", Str("It is O(n)."))>>))
RawProse == Prose("Use a hash map.")
RawUntaggedSolution == Parsed(Obj(SolutionMembers(TwoTestCases)))
RawUntaggedAnswer == Parsed(Obj(<<KV("answer", Str("It is O(n)."))>>))
RawMissingField ==
  Parsed(Tagged("solution", WithoutKey(SolutionMembers(TwoTestCases), "dryRun")))
RawWrongType ==
  Parsed(Tagged("solution",
                WithoutKey(SolutionMembers(TwoTestCases), "timeComplexity")
                \o <<KV("timeComplexity", Num("1"))>>))
RawNeither == Parsed(Tagged("note", <<KV("message", Str("hello"))>>))

RawOutputs ==
  {RawSolution, RawSolutionNoCases, RawResponse, RawProse, RawUntaggedSolution,
   RawUntaggedAnswer, RawMissingField, RawWrongType, RawNeither}

\* --------------------------------------------------------- the flow
\* prompt(...) with output format json and the union schema: output is the
\* parsed value, null (Undefined) when the text is not JSON.
PromptOutput(raw) == IF raw.parsed THEN raw.value ELSE Undefined

\* answerFollowUpQuestionFlow: throws when there is no output, and, as a flow
\* defined with outputSchema, when the output is not of the union schema.
FlowThrows(raw) ==
  \/ PromptOutput(raw) = Undefined
  \/ ~MatchesAnswerFollowUpQuestionOutputSchema(PromptOutput(raw))

AnswerFollowUpQuestionFlow(raw) ==
  [threw |-> FlowThrows(raw),
   output |-> IF FlowThrows(raw) THEN Undefined ELSE PromptOutput(raw)]

\* ------------------------------------------------ the conversations table
User1 == "a1b2c3d4-e5f6-7890-1234-567890abcdef"
User2 == "c3d4e5f6-a7b8-9012-3456-7890abcdef01"
Session1 == "b2c3d4e5-f6a7-8901-2345-67890abcdef0"
Session2 == "d4e5f6a7-b8c9-0123-4567-890abcdef012"

\* The row the handler inserts (timestamp is the row's place in the table).
Row(user, session, input, resp) ==
  [user_id |-> user, session_id |-> session, input |-> input, response |-> resp]

\* Rows of earlier requests. Row 5 is of another user. Row 3 is of another
\* session and holds an empty response: the column is TEXT NOT NULL, which
\* admits it, and the table has writers other than this handler.
SeedRow(i) ==
  Row(IF i = 5 THEN User2 ELSE User1,
      IF i = 3 THEN Session2 ELSE Session1,
      "seed " \o ToString(i),
      IF i = 3 THEN ""
      ELSE IF i % 2 = 0 THEN RawSolution.text ELSE RawResponse.text)

SeedTable(n) == [i \in 1..n |-> SeedRow(i)]

Reverse(seq) == [i \in 1..Len(seq) |-> seq[Len(seq) + 1 - i]]

\* .limit(5)
HistoryLimit == 5

Limit(seq, n) == SubSeq(seq, 1, IF Len(seq) < n THEN Len(seq) ELSE n)

\* A query that filters by session only.
EqFilterSessionOnly(rows, user, session) ==
  SelectSeq(rows, LAMBDA r : r.session_id = session)

\* .eq('user_id', user_id).eq('session_id', session_id)
EqFilter(rows, user, session) ==
  SelectSeq(rows, LAMBDA r : r.user_id = user /\ r.session_id = session)

\* An ascending order in place of the descending one.
OrderOldestFirst(rows) == rows

\* .order('timestamp', {ascending: false})
OrderNewestFirst(rows) == Reverse(rows)

\* .select('input, response')
SelectColumns(rows) ==
  [i \in 1..Len(rows) |-> [input |-> rows[i].input, response |-> rows[i].response]]

\* The history query of the handler, as the table answers it.
SelectHistory(rows, user, session) ==
  SelectColumns(Limit(OrderNewestFirst(EqFilter(rows, user, session)),
                      HistoryLimit))

\* ------------------------------------------------ history for the flow
\* (historyData || []).reverse().flatMap(entry => [user entry, assistant entry])
RECURSIVE FlatMapEntries(_)
FlatMapEntries(rows) ==
  IF rows = <<>> THEN <<>>
  ELSE <<[role |-> "user", content |-> Head(rows).input],
         [role |-> "assistant", content |-> Head(rows).response]>>
       \o FlatMapEntries(Tail(rows))

\* The history without its .reverse().
ConversationHistoryUnreversed(historyData) == FlatMapEntries(historyData)

ConversationHistory(historyData) == FlatMapEntries(Reverse(historyData))

\* for (let i = 0; i < conversationHistory.length; i += 2): a pair is pushed
\* when entry i is a user entry and entry i+1 an assistant entry.
RECURSIVE PairLoop(_, _)
PairLoop(history, i) ==
  IF i > Len(history) THEN <<>>
  ELSE (IF /\ history[i].role = "user"
           /\ i + 1 <= Len(history)
           /\ history[i + 1].role = "assistant"
        THEN <<[user |-> history[i].content,
                assistant |-> history[i + 1].content]>>
        ELSE <<>>)
       \o PairLoop(history, i + 2)

FlowInputHistory(conversationHistory) == PairLoop(conversationHistory, 1)

\* ------------------------------------------------------- responses
\* NextResponse.json(body, {status})
NextResponseJson(b, status) == [status |-> status, body |-> b]
NoResponse == [status |-> 0, body |-> Undefined]

ErrorBody(msg) == Obj(<<KV("error", Str(msg))>>)

\* validationResult.error.flatten(): the messages of each field that failed.
RECURSIVE FieldErrorMembers(_, _)
FieldErrorMembers(fields, failed) ==
  IF fields = <<>> THEN <<>>
  ELSE (IF Head(fields) \in failed
        THEN <<KV(Head(fields), Arr(<<Str("Invalid")>>))>>
        ELSE <<>>)
       \o FieldErrorMembers(Tail(fields), failed)

Flatten(failed) ==
  Obj(<<KV("formErrors", Arr(<<>>)),
        KV("fieldErrors", Obj(FieldErrorMembers(RequestFieldOrder, failed)))>>)

InvalidInputResponse(failed) ==
  NextResponseJson(Obj(<<KV("error", Str("Invalid input")),
                         KV("details", Flatten(failed))>>), 400)

ConfigMissingResponse ==
  NextResponseJson(
    ErrorBody("Internal Server Error: Database configuration missing."), 500)

FetchFailedResponse ==
  NextResponseJson(
    ErrorBody("Internal Server Error: Failed to fetch conversation history."), 500)

AiFailedResponse ==
  NextResponseJson(ErrorBody("Internal Server Error: AI processing failed."), 500)

UnexpectedFormatResponse ==
  NextResponseJson(
    ErrorBody("Internal Server Error: Unexpected AI response format."), 500)

GeneralErrorResponse == NextResponseJson(ErrorBody("Internal Server Error"), 500)

\* Step 5 passing the whole flow output, type tag included, as data.
FormatResponseKeepingTag(ai) ==
  IF Get(ai, "type") = Str("solution")
  THEN NextResponseJson(Obj(<<KV("type", Str("solution")),
                              KV("data", ai)>>), 200)
  ELSE IF Get(ai, "type") = Str("response")
  THEN NextResponseJson(Obj(<<KV("type", Str("response")),
                              KV("text", Get(ai, "answer"))>>), 200)
  ELSE UnexpectedFormatResponse

\* Step 5 of the handler: the envelope by the output's type tag.
FormatResponse(ai) ==
  IF Get(ai, "type") = Str("solution")
  THEN NextResponseJson(Obj(<<KV("type", Str("solution")),
                              KV("data", Obj(WithoutKey(ai.o, "type")))>>), 200)
  ELSE IF Get(ai, "type") = Str("response")
  THEN NextResponseJson(Obj(<<KV("type", Str("response")),
                              KV("text", Get(ai, "answer"))>>), 200)
  ELSE UnexpectedFormatResponse

\* --------------------------------------------------------- requests
Body(user, session, input) ==
  Obj(<<KV("user_id", user), KV("session_id", session), KV("input", input)>>)

ValidBodies ==
  {Body(Str(User1), Str(Session1), Str("Explain again")),
   Body(Str(User1), Str(Session2), Str("Two sum"))}

InvalidBodies ==
  {Body(Str(User1), Str(Session1), Str("")),
   Obj(<<KV("user_id", Str(User1)), KV("session_id", Str(Session1))>>),
   Body(Str("u1"), Str("s1"), Str("Two sum")),
   Body(Str("u1"), Str(Session1), Num("7"))}

Bodies == ValidBodies \cup InvalidBodies

\* process.env.SUPABASE_URL and SUPABASE_KEY: set or not.
Envs == {[url |-> TRUE, key |-> TRUE], [url |-> FALSE, key |-> TRUE],
         [url |-> TRUE, key |-> FALSE]}

\* Error details of the collaborators; NoError is a call that succeeded.
NoError == ""
StoreErrors == {"connection refused", "permission denied"}
InsertErrors == {"Failed to insert row"}
UpstreamErrors == {"quota exceeded"}
NoOutputError == "AI did not return a valid response."
SchemaError == "Schema validation failed."

NoRaw == Prose("")
NoRequest == [user_id |-> "", session_id |-> "", input |-> ""]
NoFlowInput == [question |-> "", conversationHistory |-> <<>>]
NoCalls == [read |-> 0, llm |-> 0, insert |-> 0]

NoAnswer == [raw |-> NoRaw, response |-> NoResponse]
LogEntry(msg, detail) == [msg |-> msg, detail |-> detail]

Init ==
  /\ store \in {SeedTable(n) : n \in 0..MaxSeed}
  /\ written = <<>>
  /\ answered = NoAnswer
  /\ env \in Envs
  /\ pc = [p \in Procs |-> "idle"]
  /\ body = [p \in Procs |-> Undefined]
  /\ modelOutput = [p \in Procs |-> NoRaw]
  /\ req = [p \in Procs |-> NoRequest]
  /\ flowInput = [p \in Procs |-> NoFlowInput]
  /\ aiResponse = [p \in Procs |-> Undefined]
  /\ historyError = [p \in Procs |-> NoError]
  /\ aiError = [p \in Procs |-> NoError]
  /\ insertError = [p \in Procs |-> NoError]
  /\ response = [p \in Procs |-> NoResponse]
  /\ calls = [p \in Procs |-> NoCalls]
  /\ log = [p \in Procs |-> <<>>]
  /\ started = 0

\* The handler runs on one event loop: a continuation of an invocation runs
\* only when no invocation is in the turn that hands its response over.
Quiet == \A q \in Procs : pc[q] # "done"

\* A new request is served by the lowest idle invocation slot (the slots are
\* interchangeable) while the run has requests left.
Accepts(p) ==
  /\ Quiet
  /\ pc[p] = "idle"
  /\ \A q \in Procs : q < p => pc[q] # "idle"
  /\ started < MaxRequests

\* A handler that ends without handing a response over.
ReturnNothing(p, resp, entries) ==
  /\ response' = response
  /\ log' = [log EXCEPT ![p] = log[p] \o entries]
  /\ pc' = [pc EXCEPT ![p] = "done"]

\* The request ends: the handler returns resp, having logged entries.
Return(p, resp, entries) ==
  /\ response' = [response EXCEPT ![p] = resp]
  /\ log' = [log EXCEPT ![p] = log[p] \o entries]
  /\ pc' = [pc EXCEPT ![p] = "done"]

\* request.json() rejects (the body is not JSON): the outer catch answers.
BodyUnreadable(p) ==
  /\ Accepts(p)
  /\ started' = started + 1
  /\ Return(p, GeneralErrorResponse,
            <<LogEntry("API route error:", "Unexpected token")>>)
  /\ UNCHANGED <<store, written, answered, env, body, req, flowInput, modelOutput,
                 aiResponse, historyError, aiError, insertError, calls>>

\* Step 1 and the client set-up: validate the body, read the environment,
\* and send the history query.
Receive(p) ==
  /\ Accepts(p)
  /\ started' = started + 1
  /\ \E b \in Bodies :
       LET validationResult == SafeParse(b) IN
       /\ body' = [body EXCEPT ![p] = b]
       /\ IF ~validationResult.success
          THEN /\ Return(p, InvalidInputResponse(validationResult.fieldErrors),
                         <<>>)
               /\ UNCHANGED <<req, calls>>
          ELSE IF ~env.url \/ ~env.key
          THEN /\ Return(p, ConfigMissingResponse,
                         <<LogEntry("Supabase URL or Key is missing", "")>>)
               /\ UNCHANGED <<req, calls>>
          ELSE /\ req' = [req EXCEPT ![p] = validationResult.data]
               /\ calls' = [calls EXCEPT ![p].read = @ + 1]
               /\ pc' = [pc EXCEPT ![p] = "fetching"]
               /\ UNCHANGED <<response, log>>
  /\ UNCHANGED <<store, written, answered, env, flowInput, modelOutput, aiResponse,
                 historyError, aiError, insertError>>

\* The query's error is dropped and the handler goes on without history.
HistoryErrorIgnored(err) == FALSE

\* if (historyError) throw historyError
HistoryThrows(err) == err # NoError

\* A catch of step 2 that puts the error's message into the body.
FetchCatchLeaking(err) ==
  NextResponseJson(ErrorBody("Internal Server Error: " \o err), 500)

\* The catch of step 2: the response does not depend on the error caught.
FetchCatchResponse(err) == FetchFailedResponse

\* Step 2: the history query answers, with rows or with an error; with rows
\* the handler builds the flow's history and calls the flow.
HistoryReturns(p) ==
  /\ Quiet
  /\ pc[p] = "fetching"
  /\ \E err \in {NoError} \cup StoreErrors :
     \E historyData \in
          {IF err = NoError
           THEN SelectHistory(store, req[p].user_id, req[p].session_id)
           ELSE <<>>} :
     \E conversationHistory \in {ConversationHistory(historyData)} :
       /\ historyError' = [historyError EXCEPT ![p] = err]
       /\ IF HistoryThrows(err)
          THEN /\ Return(p, FetchCatchResponse(err),
                         <<LogEntry("Supabase fetch error:", err)>>)
               /\ UNCHANGED <<flowInput, calls>>
          ELSE /\ flowInput' = [flowInput EXCEPT ![p] =
                    [question |-> req[p].input,
                     conversationHistory |-> FlowInputHistory(conversationHistory)]]
               /\ calls' = [calls EXCEPT ![p].llm = @ + 1]
               /\ pc' = [pc EXCEPT ![p] = "ai"]
               /\ UNCHANGED <<response, log>>
  /\ UNCHANGED <<store, written, answered, env, body, req, modelOutput, aiResponse,
                 aiError, insertError, started>>

\* The model call fails with an error, or the model answers with a text.
ModelOutcomes ==
  {[err |-> e, raw |-> NoRaw] : e \in UpstreamErrors}
  \cup {[err |-> NoError, raw |-> r] : r \in RawOutputs}

\* The error the awaited flow rejects with, NoError when it resolves.
FlowError(upstream, raw) ==
  IF upstream # NoError THEN upstream
  ELSE IF PromptOutput(raw) = Undefined THEN NoOutputError
  ELSE IF AnswerFollowUpQuestionFlow(raw).threw THEN SchemaError
  ELSE NoError

\* A catch that logs the flow's error and does not return.
FlowRejectionIgnored(err) == FALSE

\* try { aiResponse = await answerFollowUpQuestionFlow(...) } catch (aiError)
FlowRejected(err) == err # NoError

\* An insert that is sent and not awaited: the envelope is returned at once.
ResponseNotAwaitingInsert(ai) == FormatResponse(ai)

\* await supabase.from(...).insert(...): while the insert is pending the
\* handler is suspended and has returned nothing.
ResponseWhilePending(ai) == NoResponse

\* Step 3 ends: the flow resolves or rejects. When it resolves the handler
\* serialises the output and sends the insert (step 4).
FlowReturns(p) ==
  /\ Quiet
  /\ pc[p] = "ai"
  /\ \E outcome \in ModelOutcomes :
       LET raw == outcome.raw
           err == FlowError(outcome.err, raw)
       IN
       /\ modelOutput' = [modelOutput EXCEPT ![p] = raw]
       /\ aiError' = [aiError EXCEPT ![p] = err]
       /\ IF FlowRejected(err)
          THEN /\ Return(p, AiFailedResponse,
                         <<LogEntry("AI flow execution error:", err)>>)
               /\ UNCHANGED <<aiResponse, calls>>
          ELSE /\ aiResponse' = [aiResponse EXCEPT ![p] =
                                   AnswerFollowUpQuestionFlow(raw).output]
               /\ calls' = [calls EXCEPT ![p].insert = @ + 1]
               /\ pc' = [pc EXCEPT ![p] = "inserting"]
               /\ response' = [response EXCEPT ![p] =
                    ResponseWhilePending(AnswerFollowUpQuestionFlow(raw).output)]
               /\ UNCHANGED log
  /\ UNCHANGED <<store, written, answered, env, body, req, flowInput, historyError,
                 insertError, started>>

\* A row that stores the envelope returned to the caller.
InsertedEnvelopeRow(request, ai) ==
  Row(request.user_id, request.session_id, request.input,
      JSONstringify(FormatResponse(ai).body))

\* The row of step 4: the request's fields and the serialised flow output.
InsertedRow(request, ai) ==
  Row(request.user_id, request.session_id, request.input, JSONstringify(ai))

SaveFailedResponse ==
  NextResponseJson(
    ErrorBody("Internal Server Error: Failed to save conversation."), 500)

\* The catch of step 4 with its commented-out return put back.
AfterInsertAborting(ai, err) ==
  IF err # NoError THEN SaveFailedResponse ELSE FormatResponse(ai)

\* What the handler returns once the insert has answered: the catch of step 4
\* logs and falls through to step 5.
AfterInsert(ai, err) == FormatResponse(ai)

\* A catch of step 4 that swallows the error without logging it.
InsertCatchSilent(err) == <<>>

\* The catch of step 4: console.error('Supabase insert error:', dbError).
InsertCatchLog(err) ==
  IF err = NoError THEN <<>> ELSE <<LogEntry("Supabase insert error:", err)>>

\* An upsert keyed by user and session: the conversation's latest row is
\* overwritten when there is one.
TableAfterUpsert(rows, row, err) ==
  LET same == {i \in 1..Len(rows) : /\ rows[i].user_id = row.user_id
                                    /\ rows[i].session_id = row.session_id}
  IN IF err # NoError THEN rows
     ELSE IF same = {} THEN Append(rows, row)
     ELSE [rows EXCEPT ![CHOOSE i \in same : \A j \in same : j <= i] = row]

\* supabase.from('conversation_history').insert([row]): the table with the
\* row appended, or as it was when the insert fails.
TableAfterInsert(rows, row, err) ==
  IF err = NoError THEN Append(rows, row) ELSE rows

\* Step 4 ends and step 5 runs: the insert answers, with or without an
\* error, and the handler returns the envelope.
InsertReturns(p) ==
  /\ Quiet
  /\ pc[p] = "inserting"
  /\ \E err \in {NoError} \cup InsertErrors :
       /\ insertError' = [insertError EXCEPT ![p] = err]
       /\ store' = TableAfterInsert(store, InsertedRow(req[p], aiResponse[p]),
                                    err)
       /\ written' = IF err = NoError
                     THEN Append(written, [request |-> req[p],
                                           output |-> aiResponse[p]])
                     ELSE written
       /\ Return(p, AfterInsert(aiResponse[p], err), InsertCatchLog(err))
  /\ UNCHANGED <<answered, env, body, req, flowInput, modelOutput, aiResponse,
                 historyError, aiError, calls, started>>

\* The invocation is over; the slot serves the next request.
Finish(p) ==
  /\ pc[p] = "done"
  /\ pc' = [pc EXCEPT ![p] = "idle"]
  /\ body' = [body EXCEPT ![p] = Undefined]
  /\ modelOutput' = [modelOutput EXCEPT ![p] = NoRaw]
  /\ req' = [req EXCEPT ![p] = NoRequest]
  /\ flowInput' = [flowInput EXCEPT ![p] = NoFlowInput]
  /\ aiResponse' = [aiResponse EXCEPT ![p] = Undefined]
  /\ historyError' = [historyError EXCEPT ![p] = NoError]
  /\ aiError' = [aiError EXCEPT ![p] = NoError]
  /\ insertError' = [insertError EXCEPT ![p] = NoError]
  /\ response' = [response EXCEPT ![p] = NoResponse]
  /\ calls' = [calls EXCEPT ![p] = NoCalls]
  /\ log' = [log EXCEPT ![p] = <<>>]
  /\ answered' = IF modelOutput[p] # NoRaw
                  THEN [raw |-> modelOutput[p], response |-> response[p]]
                  ELSE answered
  /\ UNCHANGED <<store, written, env, started>>

Next ==
  \E p \in Procs :
    \/ BodyUnreadable(p)
    \/ Receive(p)
    \/ HistoryReturns(p)
    \/ FlowReturns(p)
    \/ InsertReturns(p)
    \/ Finish(p)

Spec == Init /\ [][Next]_vars

\* The continuation of an invocation: the step its awaited call, or the
\* hand-over of its response, leads to. At most one is enabled at a time.
Continue(p) ==
  \/ HistoryReturns(p)
  \/ FlowReturns(p)
  \/ InsertReturns(p)
  \/ Finish(p)

\* Every awaited call answers (resolves or rejects) and the event loop runs
\* the continuation; a response that is ready is handed over.
Fairness == \A p \in Procs : WF_vars(Continue(p))

\* The runs checked for termination start from the empty table or from the
\* full one; how a request ends does not depend on the rows it reads.
LiveInit == Init /\ store \in {SeedTable(0), SeedTable(MaxSeed)}

LiveSpec == LiveInit /\ [][Next]_vars /\ Fairness

\* ==================================================================
\* Properties
\* ==================================================================

\* The table rows of one conversation, oldest first.
SessionTurns(rows, user, session) ==
  SelectSeq(rows, LAMBDA r : r.user_id = user /\ r.session_id = session)

\* C1: once the history read and the flow have succeeded, the response is
\* the 200 envelope of the flow's output whether the insert failed or not:
\* a failed insert returns what a successful one returns.
C1_InsertFailureSameResponse ==
  \A p \in Procs :
    (pc[p] = "done" /\ calls[p].insert = 1)
      => /\ response[p].status = 200
         /\ response[p] = FormatResponse(aiResponse[p])

C1_Witness ==
  \E p \in Procs :
    /\ pc[p] = "done"
    /\ calls[p].insert = 1
    /\ insertError[p] # NoError
    /\ response[p].status = 200

\* C2: a request whose history read failed has ended with the 500 response
\* of the fetch failure and has not called the flow.
C2_ReadFailureIsFatal ==
  \A p \in Procs :
    historyError[p] # NoError
      => /\ pc[p] = "done"
         /\ response[p].status = 500
         /\ response[p] = FetchFailedResponse
         /\ calls[p].llm = 0

C2_Witness ==
  \E p \in Procs :
    pc[p] = "done" /\ historyError[p] # NoError /\ calls[p].read = 1

\* C3: a request whose flow call failed has ended with the 500 response of
\* the AI failure and has sent no insert.
C3_FlowFailureIsFatal ==
  \A p \in Procs :
    aiError[p] # NoError
      => /\ pc[p] = "done"
         /\ response[p].status = 500
         /\ response[p] = AiFailedResponse
         /\ calls[p].insert = 0
         /\ insertError[p] = NoError

C3_Witness ==
  \E p \in Procs :
    pc[p] = "done" /\ aiError[p] \in UpstreamErrors /\ calls[p].llm = 1

\* The body has no input member, or an empty one.
InputEmptyOrMissing(b) ==
  b.t = "object" /\ Get(b, "input") \in {Str(""), Undefined}

\* C4: a request whose input is empty or missing has ended with the 400
\* response that names input, having made no query, flow call or insert.
C4_EmptyInputRejected ==
  \A p \in Procs :
    InputEmptyOrMissing(body[p])
      => /\ pc[p] = "done"
         /\ response[p].status = 400
         /\ Get(response[p].body, "error") = Str("Invalid input")
         /\ Get(Get(Get(response[p].body, "details"), "fieldErrors"), "input")
              # Undefined
         /\ calls[p] = NoCalls

C4_Witness ==
  \E p \in Procs :
    /\ pc[p] = "done"
    /\ Get(body[p], "input") = Str("")
    /\ response[p].status = 400

Min(a, b) == IF a < b THEN a ELSE b

\* The last n elements of a sequence.
LastN(seq, n) == SubSeq(seq, Len(seq) - n + 1, Len(seq))

\* The invocation p reads its history in this step and calls the flow.
ReadsHistory(p) == pc[p] = "fetching" /\ pc'[p] = "ai"

\* C5: when the table holds k rows of the request's conversation, the
\* history passed to the flow has min(k, 5) pairs: the k-th, (k-1)-th, ...
\* newest rows, oldest first, each row one pair; none when k = 0.
C5_WindowOfStoredRows ==
  [][\A p \in Procs :
       ReadsHistory(p) =>
         LET turns == SessionTurns(store, req[p].user_id, req[p].session_id)
             k == Len(turns)
             n == Min(k, 5)
             ctx == flowInput'[p].conversationHistory
         IN /\ Len(ctx) = n
            /\ \A j \in 1..n :
                 /\ ctx[j].user = turns[k - n + j].input
                 /\ ctx[j].assistant = turns[k - n + j].response
            /\ (k = 0 => ctx = <<>>)]_vars

C5_Witness ==
  \E p \in Procs :
    /\ pc[p] = "ai"
    /\ Len(SessionTurns(store, req[p].user_id, req[p].session_id)) > 5
    /\ Len(flowInput[p].conversationHistory) = 5
    /\ flowInput[p].conversationHistory[5].user = "seed 8"
    /\ flowInput[p].conversationHistory[1].user = "seed 2"

\* The invocation p gets the answer of its insert in this step, without error.
InsertSucceeds(p) ==
  pc[p] = "inserting" /\ pc'[p] = "done" /\ insertError'[p] = NoError

\* C6: the row a request appends holds the user_id, session_id and input of
\* the request body, and as response the serialisation of the flow's output
\* (the parsed model output), which differs from the serialisation of the
\* envelope returned to the caller.
C6_AppendedTurnIsRaw ==
  [][\A p \in Procs :
       InsertSucceeds(p) =>
         /\ Len(store') = Len(store) + 1
         /\ LET row == store'[Len(store')] IN
            /\ row.user_id = Get(body[p], "user_id").s
            /\ row.session_id = Get(body[p], "session_id").s
            /\ row.input = Get(body[p], "input").s
            /\ aiResponse[p] = modelOutput[p].value
            /\ row.response = JSONstringify(modelOutput[p].value)
            /\ row.response # JSONstringify(response'[p].body)]_vars

C6_Witness ==
  \E p \in Procs :
    /\ pc[p] = "done"
    /\ calls[p].insert = 1
    /\ insertError[p] = NoError
    /\ Get(response[p].body, "type") = Str("solution")
    /\ store # <<>>
    /\ store[Len(store)].response = RawSolution.text

\* The turns of a conversation as its requests made them: the rows the table
\* held at the start of the run (turns of earlier requests) followed by the
\* turns of this run's requests whose insert succeeded, each with the input
\* of its request and the serialisation of its flow output.
TurnsOfRequests(user, session) ==
  LET before == SubSeq(store, 1, Len(store) - Len(written))
      earlier == SessionTurns(before, user, session)
      mine == SelectSeq(written, LAMBDA w : /\ w.request.user_id = user
                                            /\ w.request.session_id = session)
  IN [j \in 1..Len(earlier) |->
        [user |-> earlier[j].input, assistant |-> earlier[j].response]]
     \o [j \in 1..Len(mine) |->
           [user |-> mine[j].request.input,
            assistant |-> JSONstringify(mine[j].output)]]

\* C7: after n requests of a conversation have completed with their inserts
\* succeeding, the history the next request of the conversation passes to the
\* flow is the last min(n, 5) of their turns in the order they were made.
C7_NextRequestSeesLastTurns ==
  [][\A p \in Procs :
       ReadsHistory(p) =>
         LET turns == TurnsOfRequests(req[p].user_id, req[p].session_id)
         IN flowInput'[p].conversationHistory
              = LastN(turns, Min(Len(turns), 5))]_vars

C7_Witness ==
  \E p \in Procs :
    /\ pc[p] = "ai"
    /\ written # <<>>
    /\ written[Len(written)].request.session_id = req[p].session_id
    /\ written[Len(written)].request.user_id = req[p].user_id
    /\ Len(flowInput[p].conversationHistory) = 5
    /\ flowInput[p].conversationHistory[5]
         = [user |-> written[Len(written)].request.input,
            assistant |-> JSONstringify(written[Len(written)].output)]
    /\ flowInput[p].conversationHistory[4].user = "seed 8"

\* The 200 envelope of a plain answer.
PlainAnswerResponse(text) ==
  NextResponseJson(Obj(<<KV("type", Str("response")), KV("text", Str(text))>>),
                   200)

\* The model answered p's call (the call itself did not fail).
ModelAnswered(p) == modelOutput[p] # NoRaw

\* C8: a model output that is not JSON (prose) ends the request with the
\* 200 plain answer whose text is the output verbatim, never with an error.
C8_ProseIsPlainAnswer ==
  \A p \in Procs :
    (pc[p] = "done" /\ ModelAnswered(p) /\ ~modelOutput[p].parsed)
      => response[p] = PlainAnswerResponse(modelOutput[p].text)

\* The seven solution fields are present with their primitive types.
HasSolutionFields(v) == MatchesGenerateCodeSolutionOutputSchema(v)

\* The plain-text field is present.
HasAnswerField(v) == v.t = "object" /\ IsString(Get(v, "answer"))

\* C9: a model output that is JSON but has neither the solution fields nor
\* the plain-text field ends the request with a 200 plain answer that carries
\* a string; the request does not fail.
C9_NeitherShapeIsPlainAnswer ==
  \A p \in Procs :
    (/\ pc[p] = "done"
     /\ modelOutput[p].parsed
     /\ ~HasSolutionFields(modelOutput[p].value)
     /\ ~HasAnswerField(modelOutput[p].value))
      => /\ response[p].status = 200
         /\ Get(response[p].body, "type") = Str("response")
         /\ IsString(Get(response[p].body, "text"))

\* The check of the claim: seven fields of the right types and at least one
\* test case.
PassesSolutionCheck(v) ==
  HasSolutionFields(v) /\ Len(Get(v, "testCases").a) >= 1

\* C10: the response of a request whose model output is JSON is of type
\* "solution" exactly when the output has the seven solution fields with
\* their types and a non-empty test-case list.
C10_SolutionIffSevenFields ==
  \A p \in Procs :
    (pc[p] = "done" /\ modelOutput[p].parsed)
      => (Get(response[p].body, "type") = Str("solution")
            <=> PassesSolutionCheck(modelOutput[p].value))

\* The keys of an object's members.
Keys(members) == {members[i].k : i \in 1..Len(members)}

\* A request that ended with a 200 envelope.
Succeeded(p) == pc[p] = "done" /\ response[p].status = 200

\* C11: the 200 envelope is fixed by the model output. For an output tagged
\* "solution" it is {type: "solution", data} where data has every member of
\* the output but the type tag, each with the output's value and in the
\* output's order; for an output tagged "response" it is
\* {type: "response", text} with text the output's answer.
C11_EnvelopeFromModelOutput ==
  \A p \in Procs :
    Succeeded(p) =>
      LET out == modelOutput[p].value
          env200 == response[p].body
          data == Get(env200, "data")
      IN /\ modelOutput[p].parsed
         /\ Get(out, "type") \in {Str("solution"), Str("response")}
         /\ Get(out, "type") = Str("solution") =>
              /\ Keys(env200.o) = {"type", "data"}
              /\ Get(env200, "type") = Str("solution")
              /\ Keys(data.o) = Keys(out.o) \ {"type"}
              /\ Len(data.o) = Len(out.o) - 1
              /\ \A k \in Keys(data.o) : Get(data, k) = Get(out, k)
              /\ \A i, j \in 1..Len(data.o) :
                   i < j => \E a, b \in 1..Len(out.o) :
                              a < b /\ out.o[a] = data.o[i] /\ out.o[b] = data.o[j]
         /\ Get(out, "type") = Str("response") =>
              /\ Keys(env200.o) = {"type", "text"}
              /\ Get(env200, "type") = Str("response")
              /\ Get(env200, "text") = Get(out, "answer")

C11_Witness ==
  \E p \in Procs :
    /\ Succeeded(p)
    /\ Get(modelOutput[p].value, "type") = Str("solution")
    /\ Get(Get(response[p].body, "data"), "testCases")
         = Get(modelOutput[p].value, "testCases")
    /\ Get(Get(response[p].body, "data"), "type") = Undefined

\* The request body was read and failed the schema.
ValidationFailed(p) == body[p] # Undefined /\ ~SafeParse(body[p]).success

\* The 200 envelope of either type.
IsSuccessEnvelope(resp) ==
  /\ resp.status = 200
  /\ Get(resp.body, "type") \in {Str("solution"), Str("response")}

\* An error response: a status other than 200 and a body {error: ...}.
IsErrorResponse(resp) ==
  resp.status # 200 /\ Get(resp.body, "error") # Undefined

\* request.json() rejected: the handler never had a body.
BodyWasUnreadable(p) == body[p] = Undefined

\* The body passed the schema and SUPABASE_URL or SUPABASE_KEY is not set.
ConfigWasMissing(p) ==
  /\ body[p] # Undefined
  /\ SafeParse(body[p]).success
  /\ (~env.url \/ ~env.key)

\* C12 as stated: a finished request whose validation, history read and flow
\* call all went through has returned a success envelope; only those three
\* failures give an error response.
C12_ErrorOnlyInThreeCases ==
  \A p \in Procs :
    (/\ pc[p] = "done"
     /\ ~ValidationFailed(p)
     /\ historyError[p] = NoError
     /\ aiError[p] = NoError)
      => IsSuccessEnvelope(response[p])

\* C12: a finished request has returned an error response exactly when its
\* body could not be read, its validation failed, the database configuration
\* is missing, its history read failed or its flow call failed; in every
\* other execution it has returned a success envelope.
C12_ErrorOnlyInFiveCases ==
  \A p \in Procs :
    pc[p] = "done" =>
      IF \/ BodyWasUnreadable(p)
         \/ ValidationFailed(p)
         \/ ConfigWasMissing(p)
         \/ historyError[p] # NoError
         \/ aiError[p] # NoError
      THEN IsErrorResponse(response[p])
      ELSE IsSuccessEnvelope(response[p])

C12_Witness ==
  \E p \in Procs :
    /\ pc[p] = "done"
    /\ ConfigWasMissing(p)
    /\ historyError[p] = NoError
    /\ aiError[p] = NoError
    /\ response[p].status = 500

\* The handler answered the body with the 400 of a failed validation.
Rejected(p) == pc[p] = "done" /\ response[p].status = 400

\* The member is present and is a string of at least one character.
PresentNonEmptyString(b, f) == Get(b, f).t = "string" /\ Get(b, f).s # ""

\* The identifiers of the request bodies that are written as UUIDs.
UuidTexts == {User1, User2, Session1, Session2}

\* The member is a string written as a UUID.
PresentUuid(b, f) == Get(b, f).t = "string" /\ Get(b, f).s \in UuidTexts

Violates(b, f) ==
  IF f = "input" THEN ~PresentNonEmptyString(b, f) ELSE ~PresentUuid(b, f)

\* The fields the 400 response lists under details.fieldErrors.
ListedFields(resp) ==
  {f \in RequestFields :
     Get(Get(Get(resp.body, "details"), "fieldErrors"), f) # Undefined}

\* C14: the 400 response of a failed validation lists every field of the
\* body that fails its rule, and no other field.
C14_EveryViolatedFieldListed ==
  \A p \in Procs :
    Rejected(p) =>
      /\ Get(response[p].body, "error") = Str("Invalid input")
      /\ ListedFields(response[p]) = {f \in RequestFields : Violates(body[p], f)}

C14_Witness ==
  \E p \in Procs :
    /\ Rejected(p)
    /\ Violates(body[p], "user_id")
    /\ ~Violates(body[p], "session_id")
    /\ Violates(body[p], "input")
    /\ ListedFields(response[p]) = {"user_id", "input"}

\* C15: every pair of the history passed to the flow has a non-empty
\* assistant text; a fetched row whose stored response is empty contributes
\* no pair.
C15_NoEmptyAssistantInContext ==
  \A p \in Procs :
    flowInput[p] # NoFlowInput =>
      \A j \in 1..Len(flowInput[p].conversationHistory) :
        flowInput[p].conversationHistory[j].assistant # ""

\* The entries an invocation has written to the log.
Logged(p) == {log[p][i] : i \in 1..Len(log[p])}

\* C16: a request whose insert failed has written the insert error, with
\* its detail, to the log by the time its response exists, and that response
\* is the 200 envelope.
C16_FailedInsertLoggedThenSuccess ==
  \A p \in Procs :
    insertError[p] # NoError =>
      /\ LogEntry("Supabase insert error:", insertError[p]) \in Logged(p)
      /\ pc[p] = "done"
      /\ IsSuccessEnvelope(response[p])

C16_Witness ==
  \E p \in Procs :
    /\ pc[p] = "done"
    /\ insertError[p] \in InsertErrors
    /\ Len(log[p]) = 1
    /\ log[p][1].msg = "Supabase insert error:"
    /\ Get(response[p].body, "type") = Str("solution")

\* The insert of p answers without an error in this step.
WriteSucceeds(p) ==
  pc[p] = "inserting" /\ pc'[p] = "done" /\ insertError'[p] = NoError

\* C17: the table changes only by appends. A step in which a request's
\* insert succeeds adds exactly one row after the rows already there; every
\* other step leaves the table as it is; no row is ever changed or removed.
C17_StoreOnlyAppended ==
  [][/\ Len(store') >= Len(store)
     /\ SubSeq(store', 1, Len(store)) = store
     /\ IF \E p \in Procs : WriteSucceeds(p)
        THEN Len(store') = Len(store) + 1
        ELSE store' = store]_vars

C17_Witness ==
  \E p \in Procs :
    /\ pc[p] = "done"
    /\ insertError[p] = NoError
    /\ calls[p].insert = 1
    /\ Len(written) = 2
    /\ Len(store) = MaxSeed + 2
    /\ SubSeq(store, 1, MaxSeed) = SeedTable(MaxSeed)

\* sub occurs in text.
Contains(text, sub) ==
  \E i \in 1..(Len(text) - Len(sub) + 1) :
    SubSeq(text, i, i + Len(sub) - 1) = sub

\* The body is {error: msg} and nothing else.
IsErrorBodyOf(resp, msg) == resp.body.o = <<KV("error", Str(msg))>>

\* C18: whatever error the history read failed with, the body of the
\* response is {error: 'Internal Server Error: Failed to fetch conversation
\* history.'}; whatever error the flow call failed with, it is {error:
\* 'Internal Server Error: AI processing failed.'}; the error's detail does
\* not occur in the serialised response.
C18_GenericErrorBody ==
  \A p \in Procs :
    /\ historyError[p] # NoError =>
         /\ IsErrorBodyOf(response[p],
              "Internal Server Error: Failed to fetch conversation history.")
         /\ ~Contains(JSONstringify(response[p].body), historyError[p])
    /\ aiError[p] # NoError =>
         /\ IsErrorBodyOf(response[p],
              "Internal Server Error: AI processing failed.")
         /\ ~Contains(JSONstringify(response[p].body), aiError[p])

C18_Witness ==
  \E p \in Procs :
    /\ pc[p] = "done"
    /\ historyError[p] = "permission denied"
    /\ LogEntry("Supabase fetch error:", "permission denied") \in Logged(p)
    /\ response[p].status = 500
    /\ ~Contains(JSONstringify(response[p].body), "permission denied")

\* C19: a request with a valid body that finds SUPABASE_URL or SUPABASE_KEY
\* missing ends with status 500 and the body {error: 'Internal Server Error:
\* Database client initialization failed.'}, having sent no query, no flow
\* call and no insert.
C19_ConfigMissingMessage ==
  \A p \in Procs :
    (pc[p] = "done" /\ ConfigWasMissing(p)) =>
      /\ response[p].status = 500
      /\ IsErrorBodyOf(response[p],
           "Internal Server Error: Database client initialization failed.")
      /\ calls[p] = NoCalls

\* C20: a finished request whose model output is the one the last finished
\* request received has the same response, type and content alike, whatever
\* rows the table held for either and whether either insert succeeded.
C20_SameOutputSameResponse ==
  \A p \in Procs :
    (/\ pc[p] = "done"
     /\ ModelAnswered(p)
     /\ answered.raw = modelOutput[p])
      => /\ response[p].status = answered.response.status
         /\ Get(response[p].body, "type") = Get(answered.response.body, "type")
         /\ response[p].body = answered.response.body

\* Two requests with the same model output: the insert of the first
\* succeeded and changed the table, the insert of the second failed.
C20_Witness ==
  \E p \in Procs :
    /\ pc[p] = "done"
    /\ answered.raw = RawSolution
    /\ modelOutput[p] = RawSolution
    /\ Len(written) = 1
    /\ insertError[p] # NoError
    /\ response[p] = answered.response
    /\ Get(response[p].body, "type") = Str("solution")

\* The steps an invocation has behind it, by its position.
AfterValidation(p) == pc[p] \in {"fetching", "ai", "inserting", "done"}

\* C21: within one request the steps run in the order validate, read
\* history, call the flow, insert, respond, each at most once. The query is
\* sent only for a validated body; the flow is called only after the query
\* answered without an error; the insert is sent only after the flow
\* resolved; the response exists only when the request has ended; and no
\* step is taken a second time.
C21_StepsInOrderOnce ==
  \A p \in Procs :
    /\ calls[p].read <= 1 /\ calls[p].llm <= 1 /\ calls[p].insert <= 1
    /\ calls[p].read = 1 =>
         /\ AfterValidation(p)
         /\ SafeParse(body[p]).success
    /\ pc[p] = "fetching" =>
         calls[p] = [read |-> 1, llm |-> 0, insert |-> 0]
    /\ calls[p].llm = 1 =>
         /\ calls[p].read = 1
         /\ historyError[p] = NoError
         /\ pc[p] \in {"ai", "inserting", "done"}
    /\ pc[p] = "ai" =>
         /\ calls[p] = [read |-> 1, llm |-> 1, insert |-> 0]
         /\ ~ModelAnswered(p)
    /\ calls[p].insert = 1 =>
         /\ calls[p].llm = 1
         /\ ModelAnswered(p)
         /\ aiError[p] = NoError
         /\ pc[p] \in {"inserting", "done"}
    /\ response[p] # NoResponse => pc[p] = "done"

C21_Witness ==
  \E p \in Procs :
    /\ pc[p] = "done"
    /\ calls[p] = [read |-> 1, llm |-> 1, insert |-> 1]
    /\ insertError[p] = NoError
    /\ response[p].status = 200

\* The insert of p has been sent and has not answered yet.
InsertPending(p) == pc[p] = "inserting"

\* C22 as stated: the insert does not hold the response back; a request
\* whose insert is pending has its response already.
C22_ResponseNotHeldByInsert ==
  \A p \in Procs : InsertPending(p) => response[p] # NoResponse

\* C22: the handler awaits the insert. While a request's insert is pending
\* the request has no response; the response of a request that sent an
\* insert exists only once the insert has answered, with the row in the
\* table or with the insert's error logged.
C22_ResponseAwaitsInsert ==
  \A p \in Procs :
    /\ InsertPending(p) => response[p] = NoResponse
    /\ (calls[p].insert = 1 /\ response[p] # NoResponse) =>
         /\ pc[p] = "done"
         /\ IF insertError[p] = NoError
            THEN /\ store # <<>>
                 /\ store[Len(store)].input = req[p].input
                 /\ store[Len(store)].response = JSONstringify(aiResponse[p])
            ELSE LogEntry("Supabase insert error:", insertError[p]) \in Logged(p)

C22_Witness ==
  \E p \in Procs :
    /\ InsertPending(p)
    /\ aiResponse[p] # Undefined
    /\ response[p] = NoResponse
    /\ calls[p].insert = 1

\* The inputs of the requests of this run (the seed rows have others).
RunInputs == {Get(b, "input").s : b \in ValidBodies}

\* The pair a written turn gives in a history.
PairOf(w) == [user |-> w.request.input, assistant |-> JSONstringify(w.output)]

\* The turns whose insert has completed, of one conversation.
CompletedTurns(user, session) ==
  SelectSeq(written, LAMBDA w : /\ w.request.user_id = user
                                /\ w.request.session_id = session)

\* C23: requests of one conversation that overlap. Whatever the order of
\* their reads and inserts, every turn whose insert succeeded is in the
\* table afterwards, in the order the inserts completed; and the history a
\* request reads holds a turn of this run only if the insert of that turn
\* had completed when the request read: it holds no more such pairs than
\* inserts had completed, and each is the pair of a completed turn.
C23_ConcurrentTurnsKeptAndSeenAfterInsert ==
  [][/\ \A i \in 1..Len(written') :
          LET row == store'[Len(store') - Len(written') + i]
          IN /\ row.user_id = written'[i].request.user_id
             /\ row.session_id = written'[i].request.session_id
             /\ row.input = written'[i].request.input
             /\ row.response = JSONstringify(written'[i].output)
     /\ \A p \in Procs :
          ReadsHistory(p) =>
            LET ctx == flowInput'[p].conversationHistory
                completed == CompletedTurns(req[p].user_id, req[p].session_id)
                mine == {j \in 1..Len(ctx) : ctx[j].user \in RunInputs}
            IN /\ Cardinality(mine) <= Len(completed)
               /\ \A j \in mine :
                    \E i \in 1..Len(completed) : ctx[j] = PairOf(completed[i])]_vars

\* Two requests of one conversation overlapped: both inserts succeeded and
\* both turns are the last rows of the table, and the second to insert had
\* read its history before the first insert completed, so its history ends
\* with a seed row and not with the first turn.
C23_Witness ==
  \E p \in Procs :
    /\ pc[p] = "done"
    /\ Len(written) = 2
    /\ written[1].request = req[p]
    /\ written[2].request = req[p]
    /\ Len(store) >= 3
    /\ store[Len(store)].input = req[p].input
    /\ store[Len(store) - 1].input = req[p].input
    /\ flowInput[p].conversationHistory # <<>>
    /\ flowInput[p].conversationHistory[
         Len(flowInput[p].conversationHistory)].user \notin RunInputs

\* The invocation waits for a collaborator.
InFlight(p) == pc[p] \in {"fetching", "ai", "inserting"}

\* C24: when every awaited call answers, every request ends and has a
\* response: a request that waits for the query, the flow or the insert
\* comes to its end with a response, whichever way each call answers. A
\* request has one response: once set it is not replaced, and a request at
\* its end always has one.
C24_EveryRequestResponds ==
  /\ \A p \in Procs :
       InFlight(p) ~> (pc[p] = "done" /\ response[p] # NoResponse)
  /\ [](\A p \in Procs : pc[p] = "done" <=> response[p] # NoResponse)
  /\ [][\A p \in Procs :
          response[p] # NoResponse =>
            (pc'[p] = "idle" /\ response'[p] = NoResponse)]_vars

C24_Witness ==
  \E p \in Procs :
    /\ pc[p] = "done"
    /\ historyError[p] = NoError
    /\ aiError[p] = NoOutputError
    /\ response[p].status = 500
    /\ started = MaxRequests

\* C25: every pair of the history passed to the flow for a request is a row
\* of the table with the request's user_id and session_id; no pair is a
\* row of another user or another session (an input text belongs to one
\* conversation here), whatever requests of other sessions ran in between.
C25_ContextOfOwnConversation ==
  \A p \in Procs :
    flowInput[p] # NoFlowInput =>
      \A j \in 1..Len(flowInput[p].conversationHistory) :
        LET pair == flowInput[p].conversationHistory[j]
        IN /\ \E i \in 1..Len(store) :
                /\ store[i].input = pair.user
                /\ store[i].response = pair.assistant
                /\ store[i].user_id = req[p].user_id
                /\ store[i].session_id = req[p].session_id
           /\ \A i \in 1..Len(store) :
                store[i].input = pair.user =>
                  /\ store[i].user_id = req[p].user_id
                  /\ store[i].session_id = req[p].session_id

\* A request of User1 in Session1 read a table that also holds a row of
\* Session2 (row 3), a row of User2 (row 5) and a turn a Session2 request
\* appended in this run; its history skips all of them.
C25_Witness ==
  \E p \in Procs :
    /\ pc[p] = "ai"
    /\ req[p].session_id = Session1
    /\ Len(store) = MaxSeed + 1
    /\ store[3].session_id = Session2
    /\ store[5].user_id = User2
    /\ store[Len(store)].session_id = Session2
    /\ Len(flowInput[p].conversationHistory) = 5
    /\ flowInput[p].conversationHistory[1].user = "seed 2"
    /\ flowInput[p].conversationHistory[2].user = "seed 4"
    /\ flowInput[p].conversationHistory[3].user = "seed 6"
    /\ flowInput[p].conversationHistory[5].user = "seed 8"

\* The request of p ends in this step.
Ends(p) == pc[p] # "done" /\ pc'[p] = "done"

\* C26: a request that ends with an error response (400 or 500) leaves the
\* table as it was: it never sent an insert, and the step that ends it
\* changes no row. The table changes only in the step that ends a request
\* with a 200 envelope, by the row of that request.
C26_ErrorLeavesStoreUnchanged ==
  [][/\ \A p \in Procs :
          (Ends(p) /\ IsErrorResponse(response'[p])) =>
            /\ response'[p].status \in {400, 500}
            /\ calls'[p].insert = 0
            /\ store' = store
     /\ store' # store =>
          \E p \in Procs :
            /\ Ends(p)
            /\ IsSuccessEnvelope(response'[p])
            /\ store' = Append(store, Row(req[p].user_id, req[p].session_id,
                                          req[p].input,
                                          JSONstringify(aiResponse[p])))]_vars

\* A request ended with the 500 of a rejected flow after an earlier request
\* had appended its turn: the table holds that turn and nothing of this one.
C26_Witness ==
  \E p \in Procs :
    /\ pc[p] = "done"
    /\ response[p].status = 500
    /\ aiError[p] = SchemaError
    /\ calls[p].insert = 0
    /\ Len(written) = 1
    /\ Len(store) = MaxSeed + 1

====
